---- MODULE Spec2Model ----
(***************************************************************************)
(* Thermal Data Analysis Dashboard (thermal_app.py).                       *)
(*                                                                         *)
(* Two specifications over one set of variables:                           *)
(*   SpecPrep  prepare_data applied to bounded raw tables (raw, res);      *)
(*   Spec      one interactive session of the script: the sidebar host     *)
(*             list, the per-host cascading selectors, the CSV pipeline    *)
(*             and the charts, one script run per operator interaction.    *)
(***************************************************************************)
EXTENDS Integers, Sequences, FiniteSets, TLC

VARIABLES raw, res, ips, selections, zero_spiral, pc, tabi, event, out

vars == <<raw, res, ips, selections, zero_spiral, pc, tabi, event, out>>

prepVars == <<raw, res>>

dashVars == <<ips, selections, zero_spiral, pc, tabi, event, out>>

(***************************************************************************)
(* Bounds.                                                                 *)
(***************************************************************************)
MaxRows == 3

MaxIps == 2

(***************************************************************************)
(* Cells.  A pandas cell is a number or NaN ("no value"); NaN is the empty *)
(* tuple and the number v is <<v>>, so that NaN differs from every number, *)
(* 0 included.                                                             *)
(***************************************************************************)
NaN == <<>>

Num(v) == <<v>>

IsNaN(c) == c = NaN

\* Series - Series, element by element: NaN if either side is NaN.
Sub(a, b) == IF IsNaN(a) \/ IsNaN(b) THEN NaN ELSE Num(a[1] - b[1])

\* abs(), element by element: abs(NaN) is NaN.
Abs(c) == IF IsNaN(c) THEN NaN ELSE IF c[1] < 0 THEN Num(0 - c[1]) ELSE c

\* Series == 0, element by element: NaN == 0 is False.
EqZero(c) == (~IsNaN(c)) /\ c[1] = 0

(***************************************************************************)
(* Data frames: the column labels in order, the row labels (index) in      *)
(* order, and one sequence of cells per column.                            *)
(***************************************************************************)
Range(s) == {s[k] : k \in DOMAIN s}

NRows(df) == Len(df.index)

HasColumn(df, col) == col \in Range(df.columns)

\* df[col] = values: replaces the column, or appends it as the last one.
SetColumn(df, col, values) ==
    [columns |-> IF HasColumn(df, col) THEN df.columns ELSE Append(df.columns, col),
     index   |-> df.index,
     data    |-> [c \in Range(df.columns) \cup {col} |->
                     IF c = col THEN values ELSE df.data[c]]]

\* df[cols].copy(): the listed columns in the listed order, same rows.
Project(df, cols) ==
    [columns |-> cols,
     index   |-> df.index,
     data    |-> [c \in Range(cols) |-> df.data[c]]]

\* Series.shift(1): row i holds the value of row i-1, row 0 holds NaN.
Shift1(s) == [k \in 1..Len(s) |-> IF k = 1 THEN NaN ELSE s[k - 1]]

\* Series.fillna(0): every NaN of the series becomes 0.
Fillna0(s) == [k \in 1..Len(s) |-> IF IsNaN(s[k]) THEN Num(0) ELSE s[k]]

\* abs(df['FTC Servo Track'].shift(1) - df['FTC Servo Track'])
AbsShiftDiff(s) == [k \in 1..Len(s) |-> Abs(Sub(Shift1(s)[k], s[k]))]

\* abs(...) followed by .fillna(0)
Backdiff(s) == Fillna0(AbsShiftDiff(s))

ordered_columns ==
    <<"Spiral Count", "Spiral Number", "LastFindTrackCenterPosition",
      "FTC Servo Track", "PID Posn Error", "backdiff",
      "mS FTC time", "PWupdate", "nS LastIndex2SIM",
      "nS diffInx2SIM", "AvgChangeInIndexToSIM", "ns Time Correction">>

\* df[col] = np.nan: the scalar is broadcast to every row.
NaNColumn(df) == [k \in 1..NRows(df) |-> NaN]

\* df[col] = 0: what a fill with zero would do.
ZeroColumn(df) == [k \in 1..NRows(df) |-> Num(0)]

MissingFill(df) == NaNColumn(df)

\* for col in ordered_columns: if col not in df.columns: df[col] = np.nan
RECURSIVE FillMissing(_, _)
FillMissing(df, k) ==
    IF k > Len(ordered_columns) THEN df
    ELSE FillMissing(IF HasColumn(df, ordered_columns[k]) THEN df
                     ELSE SetColumn(df, ordered_columns[k], MissingFill(df)),
                     k + 1)

\* range(1, len(prepared_df) + 1)
CountFrom1(n) == [k \in 1..n |-> Num(k)]

\* range(0, len(prepared_df))
CountFrom0(n) == [k \in 1..n |-> Num(k - 1)]

SpiralCountValues(n) == CountFrom1(n)

\* prepared_df.index[prepared_df['Spiral Number'] == 0].tolist()
RECURSIVE ZeroLabels(_, _, _)
ZeroLabels(index, s, k) ==
    IF k > Len(s) THEN <<>>
    ELSE (IF EqZero(s[k]) THEN <<index[k]>> ELSE <<>>) \o ZeroLabels(index, s, k + 1)

\* zero_spiral_indices[0] + 1 when there is any zero row
FirstZeroMarker(labels) == IF Len(labels) > 0 THEN labels[1] + 1 ELSE -1

\* zero_spiral_indices[1]+1 if len(zero_spiral_indices) > 1 else -1
\* (Python's list position 1 is position 2 of a TLA+ sequence)
MarkerOf(labels) == IF Len(labels) > 1 THEN labels[2] + 1 ELSE -1

\* The body of prepare_data once 'FTC Servo Track' is known to be there.
PrepareBody(df) ==
    LET df1      == SetColumn(df, "backdiff", Backdiff(df.data["FTC Servo Track"]))
        df2      == FillMissing(df1, 1)
        prepared == SetColumn(Project(df2, ordered_columns), "Spiral Count",
                              SpiralCountValues(NRows(df2)))
        labels   == ZeroLabels(prepared.index, prepared.data["Spiral Number"], 1)
    IN  [kind |-> "ok", df |-> prepared, zero_spiral |-> MarkerOf(labels)]

\* prepare_data(df): df['FTC Servo Track'] raises KeyError when the column is
\* absent; nothing else in the function checks for a column it reads.
prepare_data(df) ==
    IF ~HasColumn(df, "FTC Servo Track")
    THEN [kind |-> "error", error |-> "KeyError: 'FTC Servo Track'"]
    ELSE PrepareBody(df)

(***************************************************************************)
(* pd.read_csv: a frame whose columns are the header's names in the file's *)
(* order and whose index is the default RangeIndex 0..n-1.                 *)
(***************************************************************************)
RangeIndex(n) == [k \in 1..n |-> k - 1]

read_csv(header, n, cells) ==
    [columns |-> header,
     index   |-> RangeIndex(n),
     data    |-> [c \in Range(header) |-> cells[c]]]

(***************************************************************************)
(* The raw tables prepare_data is applied to.                              *)
(***************************************************************************)
\* The header of a complete log, in the order of the CSV format.
FullHeader ==
    <<"Spiral Count", "Spiral Number", "LastFindTrackCenterPosition",
      "FTC Servo Track", "PID Posn Error",
      "mS FTC time", "PWupdate", "nS LastIndex2SIM",
      "nS diffInx2SIM", "AvgChangeInIndexToSIM", "ns Time Correction">>

\* A header that also carries a column of the derived name and an extra one.
WideHeader == <<"Unused Extra", "backdiff">> \o FullHeader

AllColumnNames == Range(WideHeader)

ColNo(c) == CHOOSE k \in DOMAIN WideHeader : WideHeader[k] = c

\* The content of a column the claims do not vary: distinct in every row and
\* column, and never the row's position.
DefaultColumn(c, n) == [k \in 1..n |-> Num(100 + 10 * ColNo(c) + k)]

ServoCells == {NaN, Num(2), Num(5), Num(7)}

SpiralCells == {NaN, Num(0), Num(1)}

SeqsOf(S, n) == [1..n -> S]

Without(header, absent) == SelectSeq(header, LAMBDA c : c \notin absent)

Reverse(s) == [k \in 1..Len(s) |-> s[Len(s) + 1 - k]]

\* The shapes of the tables whose cells vary: complete, columns reversed
\* with the two extra ones, no spiral-number column, no servo-track column.
Shapes ==
    {FullHeader, Reverse(WideHeader),
     Without(FullHeader, {"Spiral Number"}),
     Without(FullHeader, {"FTC Servo Track"})}

\* A table of the given shape and servo-track and spiral-number cells.
DataTable(header, n, servo, spiral) ==
    read_csv(header, n,
             [c \in AllColumnNames |->
                 IF c = "FTC Servo Track" THEN servo
                 ELSE IF c = "Spiral Number" THEN spiral
                 ELSE DefaultColumn(c, n)])

\* A table lacking the given columns, with fixed cells.
ColumnTable(absent, n) ==
    read_csv(Without(WideHeader, absent), n,
             [c \in AllColumnNames |-> DefaultColumn(c, n)])

NoResult == [kind |-> "none"]

(***************************************************************************)
(* The file system the dashboard browses.  A path is the sequence of its   *)
(* components under \\<host>\c\data\ammonite: <<host>> is the base         *)
(* directory, then <<host, date>>, <<host, date, mdw>> and                 *)
(* <<host, date, mdw, msn>>, whose thermal_data/AmPsI2I.csv is the log.    *)
(***************************************************************************)
\* The subdirectories of the directories that exist.
Tree ==
    [p \in {<<"hostA">>, <<"hostA", "d1">>, <<"hostA", "d2">>,
            <<"hostA", "d1", "m1">>, <<"hostA", "d1", "m2">>,
            <<"hostB">>, <<"hostB", "d1">>, <<"hostB", "d1", "m1">>} |->
        CASE p = <<"hostA">>             -> {"d1", "d2"}
          [] p = <<"hostA", "d1">>       -> {"m1", "m2"}
          [] p = <<"hostA", "d1", "m1">> -> {"s1", "s2"}
          [] p = <<"hostB">>             -> {"d1"}
          [] p = <<"hostB", "d1">>       -> {"m1"}
          [] p = <<"hostB", "d1", "m1">> -> {"s1", "s2", "s3"}
          [] OTHER                       -> {}]

\* Directories that exist and whose listing is refused (os.listdir raises).
Unlistable == {<<"hostA", "d2">>}

\* The spec's scenario: back-diff 0, 2, 5 and marker 3.
TableA ==
    read_csv(FullHeader, 3,
             [c \in AllColumnNames |->
                 IF c = "FTC Servo Track" THEN <<Num(5), Num(7), Num(2)>>
                 ELSE IF c = "Spiral Number" THEN <<Num(1), Num(0), Num(0)>>
                 ELSE DefaultColumn(c, 3)])

\* A log with a single zero row: marker -1.
TableB ==
    read_csv(FullHeader, 2,
             [c \in AllColumnNames |->
                 IF c = "FTC Servo Track" THEN <<Num(2), Num(2)>>
                 ELSE IF c = "Spiral Number" THEN <<Num(0), Num(1)>>
                 ELSE DefaultColumn(c, 2)])

\* A log without the servo-track column.
TableNoServo ==
    read_csv(Without(FullHeader, {"FTC Servo Track"}), 2,
             [c \in AllColumnNames |-> DefaultColumn(c, 2)])

\* The AmPsI2I.csv files that exist: a table, or bytes read_csv cannot parse.
Csv ==
    [p \in {<<"hostA", "d1", "m1", "s1">>, <<"hostB", "d1", "m1", "s1">>,
            <<"hostB", "d1", "m1", "s2">>, <<"hostB", "d1", "m1", "s3">>} |->
        CASE p = <<"hostA", "d1", "m1", "s1">> -> [kind |-> "table", table |-> TableA]
          [] p = <<"hostB", "d1", "m1", "s1">> -> [kind |-> "table", table |-> TableB]
          [] p = <<"hostB", "d1", "m1", "s2">> -> [kind |-> "garbled"]
          [] OTHER -> [kind |-> "table", table |-> TableNoServo]]

\* os.path.exists
Exists(path) == path \in DOMAIN Tree

CsvExists(target) == target \in DOMAIN Csv

\* What get_subfolders does: the folders it returns, whether it showed
\* "Access Error" (st.error), whether an exception left it.
Listing(folders, accessError, raised) ==
    [folders |-> folders, accessError |-> accessError, raised |-> raised]

\* get_subfolders without its try/except: the listing error propagates.
get_subfolders_unguarded(path) ==
    IF ~Exists(path) THEN Listing({}, FALSE, FALSE)
    ELSE IF path \in Unlistable THEN Listing({}, FALSE, TRUE)
    ELSE Listing(Tree[path], FALSE, FALSE)

get_subfolders(path) ==
    IF ~Exists(path) THEN Listing({}, FALSE, FALSE)
    ELSE IF path \in Unlistable THEN Listing({}, TRUE, FALSE)
    ELSE Listing(Tree[path], FALSE, FALSE)

(***************************************************************************)
(* Widgets and strings.                                                    *)
(***************************************************************************)
Placeholder == "-- Select --"

\* What a view holds for a selector that was not rendered.
NotShown == ""

Blank == [date |-> Placeholder, mdw |-> Placeholder, msn |-> Placeholder]

\* The texts the operator types into an IP field.
TypedTexts == {"hostA", " hostB ", "  "}

\* str.strip() on the texts that occur.
Strip(s) ==
    CASE s = " hostB " -> "hostB"
      [] s = "  "      -> ""
      [] OTHER         -> s

\* f"Address {len(st.session_state.ips)+1}"
AddressName(n) == "Address " \o ToString(n + 1)

\* The folder names in ascending string order.
SortedNames == <<"d1", "d2", "m1", "m2", "s1", "s2", "s3">>

\* sorted(names)
Sorted(S) == SelectSeq(SortedNames, LAMBDA x : x \in S)

\* sorted(names, reverse=True)
SortedReverse(S) == Reverse(Sorted(S))

\* options.index(stored) if stored in options else 0 (as a 1-based position)
DefaultIndex(options, stored) ==
    IF stored \in Range(options)
    THEN CHOOSE k \in DOMAIN options :
            options[k] = stored /\ \A j \in DOMAIN options : options[j] = stored => k <= j
    ELSE 1

NoEvent == [kind |-> "none"]

\* st.selectbox(options, index, key): the option the operator picked in this
\* run when the pick is for this selector, else the option at `index`.
Selectbox(options, index, ev, i, level) ==
    IF ev.kind = "pick" /\ ev.tab = i /\ ev.level = level /\ ev.value \in Range(options)
    THEN ev.value
    ELSE options[index]

\* if selected != "-- Select --": the next level is rendered.
GateOpen(selected) == TRUE

Gate(selected) == selected # Placeholder

(***************************************************************************)
(* One tab of the navigation loop.  A view is what the tab shows.          *)
(***************************************************************************)
\* The module-level name zero_spiral before its first assignment.
Unset == <<>>

BaseView ==
    [kind        |-> "info",
     accessError |-> FALSE,
     options     |-> <<<<>>, <<>>, <<>>>>,
     selected    |-> <<NotShown, NotShown, NotShown>>,
     listed      |-> <<>>,
     target      |-> <<>>,
     read        |-> FALSE,
     marker      |-> Unset,
     line        |-> Unset]

Result(sels, zs, view, raised) ==
    [selections |-> sels, zero_spiral |-> zs, view |-> view, raised |-> raised]

\* The marker is stored only when one was found.
AssignMarkerIfFound(old, new) == IF new = <<-1>> THEN old ELSE new

\* processed_df, zero_spiral = ...: the module-level name is rebound.
AssignMarker(old, new) == new

\* The try block: read_csv, prepare_data, the metrics, plot_thermal_graphs.
\* plot_thermal_graphs and the "0_Spiral" metric read the module-level
\* zero_spiral; every exception ends in st.error("Error processing CSV").
TryBlock(sels, zs, view, target) ==
    LET csv == Csv[target]
        v1  == [view EXCEPT !.read = TRUE]
    IN  IF csv.kind # "table"
        THEN Result(sels, zs, [v1 EXCEPT !.kind = "error"], FALSE)
        ELSE LET r == prepare_data(csv.table)
             IN  IF r.kind # "ok"
                 THEN Result(sels, zs, [v1 EXCEPT !.kind = "error"], FALSE)
                 ELSE LET zs1 == AssignMarker(zs, <<r.zero_spiral>>)
                      IN  IF zs1 = Unset
                          THEN Result(sels, zs1, [v1 EXCEPT !.kind = "error"], FALSE)
                          ELSE Result(sels, zs1,
                                      [v1 EXCEPT !.kind = "charts",
                                                 !.marker = zs1, !.line = zs1],
                                      FALSE)

\* target_file and the os.path.exists test.
FileLevel(sels, zs, view, target) ==
    LET v1 == [view EXCEPT !.target = target]
    IN  IF CsvExists(target)
        THEN TryBlock(sels, zs, v1, target)
        ELSE Result(sels, zs, [v1 EXCEPT !.kind = "notfound"], FALSE)

\* 3. Select MSN
MsnLevel(i, sels, zs, view, mdw_path, ev) ==
    LET msns         == get_subfolders(mdw_path)
        msn_options  == <<Placeholder>> \o Sorted(msns.folders)
        msn_index    == DefaultIndex(msn_options, sels[i].msn)
        selected_msn == Selectbox(msn_options, msn_index, ev, i, 3)
        sels1        == [sels EXCEPT ![i].msn = selected_msn]
        v1           == [view EXCEPT !.listed = Append(@, mdw_path),
                                     !.accessError = @ \/ msns.accessError,
                                     !.options[3] = msn_options,
                                     !.selected[3] = selected_msn]
    IN  IF msns.raised
        THEN Result(sels, zs, [view EXCEPT !.kind = "exception"], TRUE)
        ELSE IF Gate(selected_msn)
        THEN FileLevel(sels1, zs, v1, Append(mdw_path, selected_msn))
        ELSE Result(sels1, zs, v1, FALSE)

\* 2. Select MDW and Cell
MdwLevel(i, sels, zs, view, base_dir, ev) ==
    LET date_path    == IF sels[i].date # Placeholder
                        THEN Append(base_dir, sels[i].date) ELSE base_dir
        mdws         == get_subfolders(date_path)
        mdw_options  == <<Placeholder>> \o Sorted(mdws.folders)
        mdw_index    == DefaultIndex(mdw_options, sels[i].mdw)
        selected_mdw == Selectbox(mdw_options, mdw_index, ev, i, 2)
        sels1        == [sels EXCEPT ![i].mdw = selected_mdw]
        v1           == [view EXCEPT !.listed = Append(@, date_path),
                                     !.accessError = @ \/ mdws.accessError,
                                     !.options[2] = mdw_options,
                                     !.selected[2] = selected_mdw]
    IN  IF mdws.raised
        THEN Result(sels, zs, [view EXCEPT !.kind = "exception"], TRUE)
        ELSE IF Gate(selected_mdw)
        THEN MsnLevel(i, sels1, zs, v1, Append(date_path, selected_mdw), ev)
        ELSE Result(sels1, zs, v1, FALSE)

\* 1. Select Date, or the "No folders found" warning.
DateLevel(i, sels, zs, view, base_dir, ev) ==
    LET dates         == get_subfolders(base_dir)
        date_options  == <<Placeholder>> \o SortedReverse(dates.folders)
        date_index    == DefaultIndex(date_options, sels[i].date)
        selected_date == Selectbox(date_options, date_index, ev, i, 1)
        sels1         == [sels EXCEPT ![i].date = selected_date]
        v0            == [view EXCEPT !.listed = Append(@, base_dir),
                                      !.accessError = @ \/ dates.accessError]
        v1            == [v0 EXCEPT !.kind = "select",
                                    !.options[1] = date_options,
                                    !.selected[1] = selected_date]
    IN  IF dates.raised
        THEN Result(sels, zs, [view EXCEPT !.kind = "exception"], TRUE)
        ELSE IF dates.folders = {}
        THEN Result(sels, zs, [v0 EXCEPT !.kind = "nofolders"], FALSE)
        ELSE IF Gate(selected_date)
        THEN MdwLevel(i, sels1, zs, v1, base_dir, ev)
        ELSE Result(sels1, zs, v1, FALSE)

\* if i not in st.session_state.selections: selections[i] = {placeholders}
WithEntry(sels, i) ==
    [k \in DOMAIN sels \cup {i} |-> IF k \in DOMAIN sels THEN sels[k] ELSE Blank]

\* The body of the loop over the tabs, for tab i (0-based) showing ipText.
TabBody(i, ipText, sels, zs, ev) ==
    LET ip == Strip(ipText)
    IN  IF ip = ""
        THEN Result(sels, zs, BaseView, FALSE)
        ELSE DateLevel(i, WithEntry(sels, i), zs, BaseView, <<ip>>, ev)

(***************************************************************************)
(* The session: st.session_state (ips, selections), the module-level       *)
(* zero_spiral, and the script run in progress.                            *)
(***************************************************************************)
DashInit ==
    /\ ips = <<"10.x.x.x">>
    /\ selections = <<>>
    /\ zero_spiral = Unset
    /\ pc = "tabs"
    /\ tabi = 0
    /\ event = NoEvent
    /\ out = <<>>

\* A script run starts: the sidebar is drawn and the tabs are next.
StartRun(ev) ==
    /\ pc' = "tabs"
    /\ tabi' = 0
    /\ out' = <<>>
    /\ event' = ev

\* list.pop(i), i 0-based
Pop(s, i) == [k \in 1..(Len(s) - 1) |-> IF k <= i THEN s[k] ELSE s[k + 1]]

\* "Add IP" is clicked.
ClickAdd ==
    /\ pc = "idle"
    /\ Len(ips) < MaxIps
    /\ ips' = Append(ips, AddressName(Len(ips)))
    /\ StartRun(NoEvent)
    /\ UNCHANGED <<selections, zero_spiral, prepVars>>

\* The operator types a text into IP field i.
EditIP(i, text) ==
    /\ pc = "idle"
    /\ i \in 0..(Len(ips) - 1)
    /\ text # ips[i + 1]
    /\ ips' = [ips EXCEPT ![i + 1] = text]
    /\ StartRun(NoEvent)
    /\ UNCHANGED <<selections, zero_spiral, prepVars>>

\* The remove button of row i is clicked: pop(i), then st.rerun() abandons
\* this run and starts the script again.
ClickRemove(i) ==
    /\ pc = "idle"
    /\ i \in 0..(Len(ips) - 1)
    /\ Len(ips) >= 1
    /\ ips' = Pop(ips, i)
    /\ StartRun(NoEvent)
    /\ UNCHANGED <<selections, zero_spiral, prepVars>>

\* The operator picks an option of a selector the last run rendered.
Pick(i, level, value) ==
    /\ pc = "idle"
    /\ i \in 0..(Len(out) - 1)
    /\ value \in Range(out[i + 1].options[level])
    /\ value # out[i + 1].selected[level]
    /\ StartRun([kind |-> "pick", tab |-> i, level |-> level, value |-> value])
    /\ UNCHANGED <<ips, selections, zero_spiral, prepVars>>

\* One iteration of the loop over the tabs.  An exception that nothing
\* catches ends the run.
RenderTab ==
    /\ pc = "tabs"
    /\ tabi < Len(ips)
    /\ LET r == TabBody(tabi, ips[tabi + 1], selections, zero_spiral, event)
       IN  /\ selections' = r.selections
           /\ zero_spiral' = r.zero_spiral
           /\ out' = Append(out, r.view)
           /\ pc' = IF r.raised THEN "idle" ELSE "tabs"
           /\ event' = IF r.raised THEN NoEvent ELSE event
    /\ tabi' = tabi + 1
    /\ UNCHANGED <<ips, prepVars>>

\* The loop is over (or the list is empty and the script only says so).
EndRun ==
    /\ pc = "tabs"
    /\ tabi = Len(ips)
    /\ pc' = "idle"
    /\ event' = NoEvent
    /\ UNCHANGED <<ips, selections, zero_spiral, tabi, out, prepVars>>

\* The session specification leaves the prepare_data variables alone.
NoTable == read_csv(<<>>, 0, <<>>)

Init ==
    /\ raw = NoTable
    /\ res = NoResult
    /\ DashInit

Next ==
    \/ ClickAdd
    \/ \E i \in 0..(MaxIps - 1), text \in TypedTexts : EditIP(i, text)
    \/ \E i \in 0..(MaxIps - 1) : ClickRemove(i)
    \/ \E i \in 0..(MaxIps - 1), level \in 1..3, value \in Range(SortedNames) \cup {Placeholder} :
          Pick(i, level, value)
    \/ RenderTab
    \/ EndRun

Spec == Init /\ [][Next]_vars

(***************************************************************************)
(* SpecPrep: prepare_data on every raw table.                              *)
(***************************************************************************)
InitPrep ==
    /\ \/ \E n \in 0..MaxRows, header \in Shapes :
             \E servo \in SeqsOf(ServoCells, n), spiral \in SeqsOf(SpiralCells, n) :
                raw = DataTable(header, n, servo, spiral)
       \/ \E absent \in SUBSET AllColumnNames, n \in 0..MaxRows :
             raw = ColumnTable(absent, n)
    /\ res = NoResult
    /\ DashInit

\* processed_df, zero_spiral = prepare_data(raw_df)
Prepare ==
    /\ res.kind = "none"
    /\ res' = prepare_data(raw)
    /\ UNCHANGED <<raw, dashVars>>

NextPrep == Prepare

SpecPrep == InitPrep /\ [][NextPrep]_vars

(***************************************************************************)
(* Claims about prepare_data (checked under SpecPrep).                     *)
(***************************************************************************)
Prepared == res.kind = "ok"

\* The positions (1-based, original row order) of the raw rows whose
\* 'Spiral Number' equals 0; none when the raw table has no such column.
ZeroRows ==
    IF HasColumn(raw, "Spiral Number")
    THEN {k \in 1..NRows(raw) : EqZero(raw.data["Spiral Number"][k])}
    ELSE {}

\* C1: the marker index returned by prepare_data is the 1-based position of
\* the second raw row whose 'Spiral Number' is 0 when there are at least two
\* such rows, and -1 when there are none or one; the first zero row is never
\* the marker.
C1_MarkerIsSecondZeroRow ==
    Prepared =>
        IF Cardinality(ZeroRows) >= 2
        THEN \E p \in ZeroRows :
                /\ Cardinality({q \in ZeroRows : q < p}) = 1
                /\ res.zero_spiral = p
        ELSE res.zero_spiral = -1

C1_Witness ==
    /\ Prepared
    /\ Cardinality(ZeroRows) >= 2
    /\ 1 \in ZeroRows
    /\ res.zero_spiral = 3

\* C2: backdiff is 0 in row 0 and abs(servo_track[i-1] - servo_track[i]) in
\* every later row, on the rows in their original order.
C2_BackdiffIsAbsDifference ==
    Prepared =>
        \A k \in 1..NRows(raw) :
            res.df.data["backdiff"][k] =
                IF k = 1 THEN Num(0)
                ELSE Abs(Sub(raw.data["FTC Servo Track"][k - 1],
                             raw.data["FTC Servo Track"][k]))

\* C3: the prepared table has as many rows as the raw one, in the same order,
\* and its 'Spiral Count' column is 1, 2, ..., len(raw) whatever the raw
\* 'Spiral Count' column held, or whether there was one.
C3_RowsKeptAndRenumbered ==
    Prepared =>
        /\ NRows(res.df) = NRows(raw)
        /\ res.df.index = raw.index
        /\ \A c \in Range(res.df.columns) : Len(res.df.data[c]) = NRows(raw)
        /\ \A k \in 1..NRows(raw) : res.df.data["Spiral Count"][k] = Num(k)
        /\ \A c \in (Range(raw.columns) \cap Range(ordered_columns))
                        \ {"Spiral Count", "backdiff"} :
              res.df.data[c] = raw.data[c]

C3_Witness ==
    /\ Prepared
    /\ NRows(raw) >= 2
    /\ HasColumn(raw, "Spiral Count")
    /\ \A k \in 1..NRows(raw) : raw.data["Spiral Count"][k] # Num(k)
    /\ raw.data["FTC Servo Track"][1] # raw.data["FTC Servo Track"][2]

\* The expected fields the raw table does not have (backdiff is derived, not
\* expected of the raw table).
AbsentFields == (Range(ordered_columns) \ {"backdiff"}) \ Range(raw.columns)

\* C4 as stated: whatever expected fields the raw table lacks, the prepared
\* table has exactly the twelve expected fields in the fixed order, every
\* absent field holds NaN (not 0) in every row, and the row count is unchanged.
C4_EveryAbsentFieldIsNoValue ==
    Prepared =>
        /\ Len(res.df.columns) = 12
        /\ res.df.columns = ordered_columns
        /\ DOMAIN res.df.data = Range(ordered_columns)
        /\ NRows(res.df) = NRows(raw)
        /\ \A c \in AbsentFields :
              /\ Len(res.df.data[c]) = NRows(raw)
              /\ \A k \in 1..NRows(raw) :
                    IsNaN(res.df.data[c][k]) /\ res.df.data[c][k] # Num(0)

\* C4 as amended: the same, for every absent field other than 'Spiral Count',
\* which is regenerated as 1..n whether or not the raw table had it.
C4_MissingFieldsAreNoValue ==
    Prepared =>
        /\ Len(res.df.columns) = 12
        /\ res.df.columns = ordered_columns
        /\ DOMAIN res.df.data = Range(ordered_columns)
        /\ NRows(res.df) = NRows(raw)
        /\ \A c \in AbsentFields \ {"Spiral Count"} :
              /\ Len(res.df.data[c]) = NRows(raw)
              /\ \A k \in 1..NRows(raw) :
                    IsNaN(res.df.data[c][k]) /\ res.df.data[c][k] # Num(0)

C4_Witness ==
    /\ Prepared
    /\ NRows(raw) >= 2
    /\ {"PWupdate", "mS FTC time", "Spiral Number", "Spiral Count"} \subseteq AbsentFields
    /\ HasColumn(raw, "Unused Extra")

\* C5: a raw table without 'FTC Servo Track' or without 'Spiral Number' makes
\* prepare_data end in an error; it never returns a table and a marker.
C5_MissingRequiredFieldFails ==
    (res.kind # "none"
       /\ (~HasColumn(raw, "FTC Servo Track") \/ ~HasColumn(raw, "Spiral Number")))
        => res.kind = "error"

(***************************************************************************)
(* Claims about the session (checked under Spec).                          *)
(***************************************************************************)
\* What tab i would show were it the only thing the run had ever touched:
\* no other host's stored selection, no marker left by any earlier tab or run.
IsolatedView(i) ==
    TabBody(i, ips[i + 1],
            [k \in DOMAIN selections \cap {i} |-> selections[k]],
            Unset, event).view

\* C6: an error raised for one host stays in that host's tab: the run goes
\* on to every later host, and what each host's tab shows (selectors,
\* metrics, charts) depends on that host alone, so it is what it would be
\* had the others produced no error.
C6_ErrorsStayInTheirTab ==
    [][ /\ (pc = "tabs" /\ tabi < Len(ips)) =>
             /\ pc' = "tabs"
             /\ tabi' = tabi + 1
             /\ out' = Append(out, IsolatedView(tabi))
             /\ \A k \in DOMAIN selections \ {tabi} :
                   k \in DOMAIN selections' /\ selections'[k] = selections[k]
        /\ pc' = "idle" => Len(out') = Len(ips') ]_vars

C6_Witness ==
    /\ pc = "idle"
    /\ Len(out) = 2
    /\ out[1].kind = "error"
    /\ out[2].kind = "charts"

\* C7: at each of the three levels, when the directory to list is missing or
\* cannot be listed, the tab shows "No folders found", the selection at that
\* level is unresolved, no deeper level is resolved and no CSV is read.
C7_EmptyListingIsReported ==
    \A t \in DOMAIN out :
        \A k \in DOMAIN out[t].listed :
            get_subfolders(out[t].listed[k]).folders = {} =>
                /\ out[t].kind = "nofolders"
                /\ out[t].selected[k] \in {Placeholder, NotShown}
                /\ Len(out[t].listed) = k
                /\ ~out[t].read

Resolved(x) == x \notin {Placeholder, NotShown}

IsSubfolder(name, parent) == parent \in DOMAIN Tree /\ name \in Tree[parent]

SecondZeroRow(table) ==
    LET Z == IF HasColumn(table, "Spiral Number")
             THEN {k \in 1..NRows(table) : EqZero(table.data["Spiral Number"][k])}
             ELSE {}
    IN  IF Cardinality(Z) >= 2
        THEN CHOOSE p \in Z : Cardinality({q \in Z : q < p}) = 1
        ELSE -1

\* C9: whenever the charts are rendered for a host, the reference line (and
\* the marker metric) is the marker prepare_data returned for that host's
\* table in that run, never one of another host or an earlier run, and the
\* charts are never drawn without a marker.
C9_LineIsThisTablesMarker ==
    \A t \in DOMAIN out :
        out[t].kind = "charts" =>
            /\ out[t].line # Unset
            /\ out[t].line = <<SecondZeroRow(Csv[out[t].target].table)>>
            /\ out[t].marker = out[t].line

C9_Witness ==
    /\ pc = "idle"
    /\ Len(out) = 2
    /\ out[1].kind = "charts" /\ out[1].line = <<3>>
    /\ out[2].kind = "charts" /\ out[2].line = <<-1>>

\* C10: removing the host at position i leaves every other host's stored
\* selection attached to that host, and an added host starts without any
\* selection recorded for another host.
C10_SelectionsFollowTheirHosts ==
    [][ /\ Len(ips') = Len(ips) - 1 =>
             \E i \in 0..(Len(ips) - 1) :
                /\ ips' = Pop(ips, i)
                /\ \A j \in (i + 1)..(Len(ips) - 1) :
                      j \in DOMAIN selections =>
                          /\ (j - 1) \in DOMAIN selections'
                          /\ selections'[j - 1] = selections[j]
        /\ Len(ips') = Len(ips) + 1 =>
             (Len(ips) \in DOMAIN selections' => selections'[Len(ips)] = Blank) ]_vars

====
